---- MODULE Spec2Model ----
(***************************************************************************)
(* A model of libUncertainty: the error propagator                         *)
(* (basic_error_propagator, propagate.hpp), the correlation containers     *)
(* (correlation_matrix, correlation_store, correlation.hpp), the identity  *)
(* mixin and the adapter functions (utils.hpp), the uncertain value        *)
(* (uncertain.hpp) and the sample statistics (statistics.hpp).             *)
(*                                                                         *)
(* Numbers.  The library computes in double.  The model computes in exact  *)
(* real arithmetic on the numbers of the form  s * (a/b) * sqrt(r)  (s a   *)
(* sign, a/b a reduced fraction, r squarefree), which holds every rational *)
(* and the square root of every rational, plus the specials NaN and +/-Inf *)
(* that a division by zero or the square root of a negative number give.   *)
(* Rounding of the double arithmetic is not modelled.                      *)
(***************************************************************************)
EXTENDS Integers, Sequences, FiniteSets, TLC

(***************************************************************************)
(* Bounds of the model.                                                    *)
(***************************************************************************)
\* the largest number of inputs of one propagation call (the code: 1..20)
MaxArity == 3
\* the largest identity the process-wide counter issues in one behaviour
MaxId == 3
\* the largest number of values the caller keeps alive at once
MaxVars == 2
\* the largest number of inputs of one propagation through a store
MaxStoreArity == 2
\* the largest number of entries the store holds in one behaviour
MaxEntries == 3
\* the largest size N of a correlation_matrix written element by element
MaxDim == 4
\* the largest number of values of a sample handed to make_uncertain
MaxSamples == 3
\* the number of threads that mint identities concurrently
NumThreads == 2
\* the largest number of identities the threads mint in one behaviour
MaxMinted == 5

(***************************************************************************)
(* Exact arithmetic standing for double.  A finite number is               *)
(*   s * (a/b) * sqrt(r),   s a sign, a/b a reduced fraction, r squarefree *)
(***************************************************************************)
Sign(i) == IF i > 0 THEN 1 ELSE IF i < 0 THEN -1 ELSE 0

AbsInt(i) == IF i < 0 THEN -i ELSE i

RECURSIVE Gcd(_, _)
Gcd(a, b) == IF b = 0 THEN a ELSE Gcd(b, a % b)

\* <<m, r>> with n * m0^2 = m^2 * r and r squarefree (k: the next divisor tried)
RECURSIVE SquarePart(_, _, _)
SquarePart(n, k, m) ==
  IF k * k > n THEN <<m, n>>
  ELSE IF n % (k * k) = 0 THEN SquarePart(n \div (k * k), k, m * k)
  ELSE SquarePart(n, k + 1, m)

NaN == [k |-> "nan", s |-> 0, a |-> 0, b |-> 1, r |-> 1]

\* a real number outside the number form of the model
Irr == [k |-> "irr", s |-> 0, a |-> 0, b |-> 1, r |-> 1]

Inf(sg) == [k |-> "inf", s |-> sg, a |-> 0, b |-> 1, r |-> 1]

\* the number sg * (a/b) * sqrt(r), reduced; r is squarefree
Surd(sg, a, b, r) ==
  IF sg = 0 \/ a = 0 THEN [k |-> "fin", s |-> 0, a |-> 0, b |-> 1, r |-> 1]
  ELSE LET g == Gcd(a, b)
       IN  [k |-> "fin", s |-> sg, a |-> a \div g, b |-> b \div g, r |-> r]

\* the rational p/q, q > 0
Rat(p, q) == Surd(Sign(p), AbsInt(p), q, 1)

Int2R(i) == Rat(i, 1)

Zero == Int2R(0)

One == Int2R(1)

IsFin(x) == x.k = "fin"

IsRat(x) == IsFin(x) /\ x.r = 1

Neg(x) == [x EXCEPT !.s = -x.s]

\* the product of two finite numbers
MulFin(x, y) ==
  LET g == Gcd(x.r, y.r)
  IN  Surd(x.s * y.s, x.a * y.a * g, x.b * y.b, (x.r \div g) * (y.r \div g))

\* 1/y for a finite y # 0
InvFin(y) == Surd(y.s, y.b, y.a * y.r, y.r)

\* operator* of double
Mul(x, y) ==
  IF x.k = "irr" \/ y.k = "irr" THEN Irr
  ELSE IF x.k = "nan" \/ y.k = "nan" THEN NaN
  ELSE IF x.k = "inf" \/ y.k = "inf"
       THEN IF x.s * y.s = 0 THEN NaN ELSE Inf(x.s * y.s)
       ELSE MulFin(x, y)

\* operator/ of double: x/0 is NaN for x = 0 and +/-Inf otherwise
Div(x, y) ==
  IF x.k = "irr" \/ y.k = "irr" THEN Irr
  ELSE IF x.k = "nan" \/ y.k = "nan" THEN NaN
  ELSE IF y.k = "inf"
       THEN IF x.k = "inf" THEN NaN ELSE Zero
       ELSE IF x.k = "inf"
            THEN Inf(IF y.s < 0 THEN -x.s ELSE x.s)
            ELSE IF y.s = 0
                 THEN IF x.s = 0 THEN NaN ELSE Inf(x.s)
                 ELSE MulFin(x, InvFin(y))

\* operator+ of double.  The sum of two finite numbers whose ratio is not
\* rational is outside the number form of the model (Irr); the values of the
\* model are chosen so that the code never takes such a sum.
Add(x, y) ==
  IF x.k = "irr" \/ y.k = "irr" THEN Irr
  ELSE IF x.k = "nan" \/ y.k = "nan" THEN NaN
  ELSE IF x.k = "inf"
       THEN IF y.k = "inf" /\ y.s # x.s THEN NaN ELSE x
       ELSE IF y.k = "inf" THEN y
       ELSE IF x.s = 0 THEN y
       ELSE IF y.s = 0 THEN x
       ELSE IF x.r # y.r THEN Irr
       ELSE LET num == x.s * x.a * y.b + y.s * y.a * x.b
            IN  Surd(Sign(num), AbsInt(num), x.b * y.b, x.r)

Sub(x, y) == Add(x, Neg(y))

\* sqrt of double: NaN for a negative argument
Sqrt(x) ==
  IF x.k = "irr" THEN Irr
  ELSE IF x.k = "nan" THEN NaN
  ELSE IF x.k = "inf" THEN (IF x.s > 0 THEN x ELSE NaN)
  ELSE IF x.s < 0 THEN NaN
  ELSE IF x.s = 0 THEN Zero
  ELSE IF IsRat(x)
       THEN LET mr == SquarePart(x.a * x.b, 2, 1)     \* sqrt(a/b) = sqrt(a*b)/b
            IN  Surd(1, mr[1], x.b, mr[2])
       ELSE Irr

\* the model's number form holds x
Representable(x) == x.k # "irr"

(***************************************************************************)
(* Values: an argument of a propagation call is a plain number (exact), an *)
(* uncertain<double> or an add_id<uncertain<double>>.  unc_t and id_t are  *)
(* the capabilities of the argument's TYPE that the adapter functions      *)
(* detect at compile time: unc_t, the type has uncertainty(); id_t, the    *)
(* type has get_id().                                                      *)
(***************************************************************************)
\* double x = v
Exact(v) == [unc_t |-> FALSE, id_t |-> FALSE, nom |-> v, unc |-> Zero, id |-> 0]

\* uncertain<double> x(nom, unc)
Uncertain(nom, unc) ==
  [unc_t |-> TRUE, id_t |-> FALSE, nom |-> nom, unc |-> unc, id |-> 0]

\* add_id<uncertain<double>> holding identity id
Identified(nom, unc, id) ==
  [unc_t |-> TRUE, id_t |-> TRUE, nom |-> nom, unc |-> unc, id |-> id]

nominal(a) == a.nom

uncertainty(a) == a.unc

upper(a) == Add(a.nom, a.unc)

lower(a) == Sub(a.nom, a.unc)

is_uncertain(a) == a.unc_t

get_nominal(a) == IF a.unc_t THEN nominal(a) ELSE a.nom

get_uncertainty(a) == IF a.unc_t THEN uncertainty(a) ELSE Zero

get_upper(a) == IF a.unc_t THEN upper(a) ELSE a.nom

\* a plausible slip of copying get_upper: the upper bound is returned
get_lower_as_upper(a) == get_upper(a)

get_lower(a) == IF a.unc_t THEN lower(a) ELSE a.nom

get_id(a) == IF a.id_t THEN a.id ELSE 0

(***************************************************************************)
(* The caller's function a_f.  The model offers the functions the tests    *)
(* propagate through: the sum, the difference and the product of the       *)
(* arguments.  xs is the argument list, a function on 0..N-1.              *)
(***************************************************************************)
FSet == {"sum", "sub", "prod"}

Arity(xs) == Cardinality(DOMAIN xs)

RECURSIVE FoldF(_, _, _, _)
FoldF(f, xs, acc, k) ==
  IF k >= Arity(xs) THEN acc
  ELSE FoldF(f, xs,
             CASE f = "sum"  -> Add(acc, xs[k])
               [] f = "sub"  -> Sub(acc, xs[k])
               [] f = "prod" -> Mul(acc, xs[k]),
             k + 1)

Apply(f, xs) == FoldF(f, xs, xs[0], 1)

(***************************************************************************)
(* basic_error_propagator::_propagate_error: the generated overloads for   *)
(* 1..20 arguments all have this one form.                                 *)
(***************************************************************************)
\* the argument list of the evaluation that perturbs input k (k = -1: none)
EvalPoint(args, k) ==
  [i \in DOMAIN args |-> IF i = k THEN get_upper(args[i]) ELSE get_nominal(args[i])]

\* a plausible slip: the else branch stores nominal, not nominal - nominal
_propagate_error_exact_nominal(a_f, args) ==
  LET nom == Apply(a_f, EvalPoint(args, -1))
  IN  [nominal |-> nom,
       deviations |->
         [k \in DOMAIN args |->
            IF is_uncertain(args[k])
            THEN Sub(Apply(a_f, EvalPoint(args, k)), nom)
            ELSE nom]]

_propagate_error(a_f, args) ==
  LET nom == Apply(a_f, EvalPoint(args, -1))
  IN  [nominal |-> nom,
       deviations |->
         [k \in DOMAIN args |->
            IF is_uncertain(args[k])
            THEN Sub(Apply(a_f, EvalPoint(args, k)), nom)
            ELSE Sub(nom, nom)]]

\* a plausible slip: the test is_uncertain is missing, every input is
\* perturbed
RECURSIVE _propagate_error_evaluations_all(_, _, _)
_propagate_error_evaluations_all(args, calls, k) ==
  IF k < 0 THEN _propagate_error_evaluations_all(args, <<EvalPoint(args, -1)>>, 0)
  ELSE IF k >= Arity(args) THEN calls
  ELSE _propagate_error_evaluations_all(args, Append(calls, EvalPoint(args, k)),
                                        k + 1)

\* the argument lists of the calls of a_f that _propagate_error makes, in the
\* order of its statements, from the one of input k on (k = -1: the nominal
\* call); calls are those made before
RECURSIVE _propagate_error_evaluations(_, _, _)
_propagate_error_evaluations(args, calls, k) ==
  IF k < 0 THEN _propagate_error_evaluations(args, <<EvalPoint(args, -1)>>, 0)
  ELSE IF k >= Arity(args) THEN calls
  ELSE _propagate_error_evaluations(
         args,
         IF is_uncertain(args[k]) THEN Append(calls, EvalPoint(args, k)) ELSE calls,
         k + 1)

\* std::inner_product(dev.begin()+1, dev.end(), dev.begin()+1, dev[0]*dev[0])
RECURSIVE inner_product(_, _, _)
inner_product(dev, acc, k) ==
  IF k >= Arity(dev) THEN acc
  ELSE inner_product(dev, Add(acc, Mul(dev[k], dev[k])), k + 1)

\* a plausible slip: the range starts at begin() instead of begin()+1
SumOfSquares_from_begin(dev) == inner_product(dev, Mul(dev[0], dev[0]), 0)

SumOfSquares(dev) == inner_product(dev, Mul(dev[0], dev[0]), 1)

\* propagate_error(a_f, args...): no correlation
propagate_error(a_f, args) ==
  LET p == _propagate_error(a_f, args)
      unc == Sqrt(SumOfSquares(p.deviations))
  IN  [nominal |-> p.nominal, uncertainty |-> unc]

\* propagate_error_and_correlation(a_f, args...): no correlation
propagate_error_and_correlation(a_f, args) ==
  LET p == _propagate_error(a_f, args)
      unc == Sqrt(SumOfSquares(p.deviations))
  IN  [nominal |-> p.nominal, uncertainty |-> unc,
       coefficients |-> [k \in DOMAIN args |-> Div(p.deviations[k], unc)]]

(***************************************************************************)
(* correlation_matrix<double>: m_elements, a vector indexed from 0.        *)
(***************************************************************************)
compute_storage_size(a_N) == 1 + (a_N * (a_N - 1)) \div 2

\* a plausible slip: the element is looked up by its column alone
compute_index_column(m, a_i, a_j) ==
  IF a_i = a_j THEN Arity(m) - 1 ELSE a_j

compute_index(m, a_i, a_j) ==
  IF a_i = a_j THEN Arity(m) - 1 ELSE a_i + a_j - 1

\* correlation_matrix(a_N)
correlation_matrix(a_N) ==
  [e \in 0 .. (compute_storage_size(a_N) - 1) |->
     IF e = compute_storage_size(a_N) - 1 THEN One ELSE Zero]

\* T operator()(int a_i, int a_j) const
MatGet(m, a_i, a_j) == m[compute_index(m, a_i, a_j)]

\* T& operator()(int a_i, int a_j), assigned a_val
MatSet(m, a_i, a_j, a_val) == [m EXCEPT ![compute_index(m, a_i, a_j)] = a_val]

\* a plausible slip: the factor 2 of the cross terms is missing
RECURSIVE MatrixTerms_no_factor(_, _, _, _, _)
MatrixTerms_no_factor(sum, m, dev, i, j) ==
  IF i >= Arity(dev) THEN sum
  ELSE IF j >= Arity(dev) THEN MatrixTerms_no_factor(sum, m, dev, i + 1, i + 2)
  ELSE MatrixTerms_no_factor(
         Add(sum, Mul(Mul(MatGet(m, i, j), dev[i]), dev[j])),
         m, dev, i, j + 1)

\* a plausible slip: each cross term is added for (i,j) and again for (j,i)
RECURSIVE MatrixTerms_both_orders(_, _, _, _, _)
MatrixTerms_both_orders(sum, m, dev, i, j) ==
  IF i >= Arity(dev) THEN sum
  ELSE IF j >= Arity(dev) THEN MatrixTerms_both_orders(sum, m, dev, i + 1, i + 2)
  ELSE MatrixTerms_both_orders(
         Add(sum, Mul(Mul(Mul(Int2R(4), MatGet(m, i, j)), dev[i]), dev[j])),
         m, dev, i, j + 1)

\* the loops that add the correlation terms of a matrix to the sum
RECURSIVE MatrixTerms(_, _, _, _, _)
MatrixTerms(sum, m, dev, i, j) ==
  IF i >= Arity(dev) THEN sum
  ELSE IF j >= Arity(dev) THEN MatrixTerms(sum, m, dev, i + 1, i + 2)
  ELSE MatrixTerms(
         Add(sum, Mul(Mul(Mul(Int2R(2), MatGet(m, i, j)), dev[i]), dev[j])),
         m, dev, i, j + 1)

\* propagate_error(a_f, a_correlation_matrix, args...)
propagate_error_matrix(a_f, m, args) ==
  LET p == _propagate_error(a_f, args)
      sum == MatrixTerms(SumOfSquares(p.deviations), m, p.deviations, 0, 1)
  IN  [nominal |-> p.nominal, uncertainty |-> Sqrt(sum)]

\* a plausible slip: the test i != j is missing
RECURSIVE MatrixCoefficient_with_diagonal(_, _, _, _, _)
MatrixCoefficient_with_diagonal(sum, m, dev, i, j) ==
  IF j >= Arity(dev) THEN sum
  ELSE MatrixCoefficient_with_diagonal(
         Add(sum, Mul(MatGet(m, i, j), dev[j])), m, dev, i, j + 1)

\* the inner loop of the coefficient of input i: sum += matrix(i,j)*dev[j], j # i
RECURSIVE MatrixCoefficient(_, _, _, _, _)
MatrixCoefficient(sum, m, dev, i, j) ==
  IF j >= Arity(dev) THEN sum
  ELSE MatrixCoefficient(
         IF i # j THEN Add(sum, Mul(MatGet(m, i, j), dev[j])) ELSE sum,
         m, dev, i, j + 1)

\* propagate_error_and_correlation(a_f, a_correlation_matrix, args...)
propagate_error_and_correlation_matrix(a_f, m, args) ==
  LET p == _propagate_error(a_f, args)
      sum == MatrixTerms(SumOfSquares(p.deviations), m, p.deviations, 0, 1)
      unc == Sqrt(sum)
  IN  [nominal |-> p.nominal, uncertainty |-> unc,
       coefficients |->
         [i \in DOMAIN args |->
            Div(MatrixCoefficient(p.deviations[i], m, p.deviations, i, 0), unc)]]

(***************************************************************************)
(* get_uniq_id and the add_id mixin.  counter is the function's static id. *)
(***************************************************************************)
\* a plausible slip: id++ for ++id
get_uniq_id_post_increment(counter) == [id |-> counter, counter |-> counter + 1]

\* a plausible slip: id is not static, every call starts from 0
get_uniq_id_not_static(counter) == [id |-> 1, counter |-> counter + 1]

\* return ++id
get_uniq_id(counter) == [id |-> counter + 1, counter |-> counter + 1]

\* add_id<uncertain<double>> x(nom, unc): the member initializer
\* id = get_uniq_id() runs
add_id_construct(nom, unc, counter) ==
  [val |-> Identified(nom, unc, get_uniq_id(counter).id),
   counter |-> get_uniq_id(counter).counter]

\* a plausible slip: the member initializer runs on a copy as well
add_id_copy_initialized(x, counter) ==
  [val |-> [x EXCEPT !.id = get_uniq_id(counter).id],
   counter |-> get_uniq_id(counter).counter]

\* add_id<..> y(x) or y = x: the implicit copy constructor and copy
\* assignment copy the base and the id
add_id_copy(x, counter) == [val |-> x, counter |-> counter]

\* x = v for v of the base type (using BASE::operator=): the id stays
add_id_assign_base(x, v) == [x EXCEPT !.nom = v.nom, !.unc = v.unc]

\* x.new_id()
new_id(x, counter) ==
  [val |-> [x EXCEPT !.id = get_uniq_id(counter).id],
   counter |-> get_uniq_id(counter).counter]

\* x.clear_id()
clear_id(x) == [x EXCEPT !.id = 0]

(***************************************************************************)
(* correlation_store<double>: m_correlation_coefficients, a std::map from  *)
(* key_type to double, here a function on the set of its keys.             *)
(***************************************************************************)
EmptyStore == [key \in {} |-> Zero]

\* a plausible slip: the ids are not put in order
make_key_unordered(a_id1, a_id2) == <<a_id1, a_id2>>

make_key(a_id1, a_id2) ==
  IF a_id1 > a_id2 THEN <<a_id2, a_id1>> ELSE <<a_id1, a_id2>>

\* m[key] = a_val of std::map
MapAssign(m, key, a_val) ==
  [x \in DOMAIN m \cup {key} |-> IF x = key THEN a_val ELSE m[x]]

\* a plausible slip: the existing entry is overwritten before the throw
add_with_ids_overwrite(m, a_id1, a_id2, a_val) ==
  LET key == make_key(a_id1, a_id2)
  IN  [store |-> MapAssign(m, key, a_val), threw |-> key \in DOMAIN m]

\* add_with_ids: threw is TRUE when the std::runtime_error is thrown
add_with_ids(m, a_id1, a_id2, a_val) ==
  LET key == make_key(a_id1, a_id2)
  IN  IF key \in DOMAIN m
      THEN [store |-> m, threw |-> TRUE]
      ELSE [store |-> MapAssign(m, key, a_val), threw |-> FALSE]

set_with_ids(m, a_id1, a_id2, a_val) == MapAssign(m, make_key(a_id1, a_id2), a_val)

\* a plausible slip: the strict lookup m.at(key) alone, which throws
\* std::out_of_range when there is no entry
get_with_ids_strict(m, a_id1, a_id2) ==
  LET key == make_key(a_id1, a_id2)
  IN  IF key \notin DOMAIN m
      THEN [out |-> Zero, threw |-> TRUE]
      ELSE [out |-> m[key], threw |-> FALSE]

\* get_with_ids: the call and whether it threw
get_with_ids_call(m, a_id1, a_id2) ==
  LET key == make_key(a_id1, a_id2)
  IN  IF key \notin DOMAIN m
      THEN [out |-> Zero, threw |-> FALSE]
      ELSE [out |-> m[key], threw |-> FALSE]

\* a plausible slip: the lookup is m_correlation_coefficients[key], which
\* inserts a zero entry for a key that is absent
get_with_ids_map_inserting(m, a_id1, a_id2) ==
  IF make_key(a_id1, a_id2) \in DOMAIN m THEN m
  ELSE MapAssign(m, make_key(a_id1, a_id2), Zero)

\* m_correlation_coefficients after get_with_ids: the function is const and
\* looks the key up with find and at, which insert nothing
get_with_ids_map(m, a_id1, a_id2) == m

\* a plausible slip: a pair without entry reads as fully correlated
get_with_ids_default_one(m, a_id1, a_id2) ==
  IF make_key(a_id1, a_id2) \notin DOMAIN m THEN One
  ELSE m[make_key(a_id1, a_id2)]

\* the value get_with_ids returns
get_with_ids(m, a_id1, a_id2) == get_with_ids_call(m, a_id1, a_id2).out

\* the templates add, set and get on two variables
add(m, a_v1, a_v2, a_val) == add_with_ids(m, get_id(a_v1), get_id(a_v2), a_val)

set(m, a_v1, a_v2, a_val) == set_with_ids(m, get_id(a_v1), get_id(a_v2), a_val)

get(m, a_v1, a_v2) == get_with_ids_call(m, get_id(a_v1), get_id(a_v2))

(***************************************************************************)
(* propagate_error(a_f, a_correlation_store, args...)                      *)
(***************************************************************************)
\* a plausible slip: the factor 2 of the cross terms of the store is missing
RECURSIVE StoreTerms_no_factor(_, _, _, _, _, _)
StoreTerms_no_factor(sum, m, ids, dev, i, j) ==
  IF i >= Arity(dev) THEN sum
  ELSE IF ids[i] = 0 \/ j >= Arity(dev)
       THEN StoreTerms_no_factor(sum, m, ids, dev, i + 1, i + 2)
  ELSE StoreTerms_no_factor(
         IF ids[j] = 0 THEN sum
         ELSE Add(sum, Mul(Mul(get_with_ids(m, ids[i], ids[j]), dev[i]), dev[j])),
         m, ids, dev, i, j + 1)

\* the loops that add the correlation terms of the store to the sum
RECURSIVE StoreTerms(_, _, _, _, _, _)
StoreTerms(sum, m, ids, dev, i, j) ==
  IF i >= Arity(dev) THEN sum
  ELSE IF ids[i] = 0 \/ j >= Arity(dev) THEN StoreTerms(sum, m, ids, dev, i + 1, i + 2)
  ELSE StoreTerms(
         IF ids[j] = 0 THEN sum
         ELSE Add(sum, Mul(Mul(Mul(Int2R(2), get_with_ids(m, ids[i], ids[j])),
                               dev[i]), dev[j])),
         m, ids, dev, i, j + 1)

\* the inner loop of the coefficient of input i: sum += get(ids[i],ids[j])*dev[j]
\* a plausible slip: the inner loop runs over j > i only, as the loop of the
\* uncertainty does
RECURSIVE StoreCoefficient_upper_only(_, _, _, _, _, _)
StoreCoefficient_upper_only(sum, m, ids, dev, i, j) ==
  IF j >= Arity(dev) THEN sum
  ELSE StoreCoefficient_upper_only(
         IF i < j THEN Add(sum, Mul(get_with_ids(m, ids[i], ids[j]), dev[j])) ELSE sum,
         m, ids, dev, i, j + 1)

RECURSIVE StoreCoefficient(_, _, _, _, _, _)
StoreCoefficient(sum, m, ids, dev, i, j) ==
  IF j >= Arity(dev) THEN sum
  ELSE StoreCoefficient(
         IF i # j THEN Add(sum, Mul(get_with_ids(m, ids[i], ids[j]), dev[j])) ELSE sum,
         m, ids, dev, i, j + 1)

\* a plausible slip: the coefficient is stored without the division by unc
RECURSIVE WriteCoefficients_undivided(_, _, _, _, _, _, _)
WriteCoefficients_undivided(m, coefs, ids, dev, unc, ret_id, i) ==
  IF i >= Arity(dev) THEN [store |-> m, coefficients |-> coefs]
  ELSE LET c == StoreCoefficient(dev[i], m, ids, dev, i, 0)
       IN  WriteCoefficients_undivided(set_with_ids(m, ret_id, ids[i], c),
                                       [coefs EXCEPT ![i] = c],
                                       ids, dev, unc, ret_id, i + 1)

\* the outer loop: the coefficient of each input i in turn is computed from
\* the store as it is then and written under (ret.get_id(), ids[i])
\* a plausible slip: the coefficient is stored under the first input's
\* identity instead of the result's
RECURSIVE WriteCoefficients_first_input(_, _, _, _, _, _, _)
WriteCoefficients_first_input(m, coefs, ids, dev, unc, ret_id, i) ==
  IF i >= Arity(dev) THEN [store |-> m, coefficients |-> coefs]
  ELSE LET c == Div(StoreCoefficient(dev[i], m, ids, dev, i, 0), unc)
       IN  WriteCoefficients_first_input(set_with_ids(m, ids[0], ids[i], c),
                                         [coefs EXCEPT ![i] = c],
                                         ids, dev, unc, ret_id, i + 1)

RECURSIVE WriteCoefficients(_, _, _, _, _, _, _)
WriteCoefficients(m, coefs, ids, dev, unc, ret_id, i) ==
  IF i >= Arity(dev) THEN [store |-> m, coefficients |-> coefs]
  ELSE LET c == Div(StoreCoefficient(dev[i], m, ids, dev, i, 0), unc)
       IN  WriteCoefficients(set_with_ids(m, ret_id, ids[i], c),
                             [coefs EXCEPT ![i] = c],
                             ids, dev, unc, ret_id, i + 1)

\* the call: the result, the store and the identity counter after it;
\* coefficients are the values written, by input
propagate_error_store(a_f, m, counter, args) ==
  LET ids == [k \in DOMAIN args |-> get_id(args[k])]
      p == _propagate_error(a_f, args)
      sum == StoreTerms(SumOfSquares(p.deviations), m, ids, p.deviations, 0, 1)
      unc == Sqrt(sum)
      fresh == get_uniq_id(counter)
      w == WriteCoefficients(m, [k \in DOMAIN args |-> Zero], ids, p.deviations,
                             unc, fresh.id, 0)
  IN  [ret |-> Identified(p.nominal, unc, fresh.id),
       coefficients |-> w.coefficients,
       store |-> w.store,
       counter |-> fresh.counter]

(***************************************************************************)
(* A caller-supplied function that throws.  The calls of a_f are numbered  *)
(* in the order _propagate_error makes them: call 0 takes the nominal      *)
(* values, the following calls perturb the uncertain inputs in turn.  a_f  *)
(* throws on the calls whose number is in bad; nothing in the propagator   *)
(* catches, so the exception leaves _propagate_error and its caller at the *)
(* throwing call.                                                          *)
(***************************************************************************)
\* a plausible slip: the call of a_f is wrapped in a catch-all and the
\* propagation carries on
RECURSIVE _propagate_error_calls_caught(_, _, _, _)
_propagate_error_calls_caught(bad, args, k, n) ==
  IF k < 0 THEN _propagate_error_calls_caught(bad, args, 0, 1)
  ELSE IF k >= Arity(args) THEN [threw |-> FALSE, evals |-> n]
  ELSE IF ~is_uncertain(args[k])
       THEN _propagate_error_calls_caught(bad, args, k + 1, n)
       ELSE _propagate_error_calls_caught(bad, args, k + 1, n + 1)

\* the calls of a_f from the one that perturbs input k on (k = -1: the
\* nominal call), n calls made before: whether an exception left the
\* function and the number of calls made
RECURSIVE _propagate_error_calls(_, _, _, _)
_propagate_error_calls(bad, args, k, n) ==
  IF k >= Arity(args) THEN [threw |-> FALSE, evals |-> n]
  ELSE IF k >= 0 /\ ~is_uncertain(args[k])
       THEN _propagate_error_calls(bad, args, k + 1, n)
       ELSE IF n \in bad THEN [threw |-> TRUE, evals |-> n + 1]
            ELSE _propagate_error_calls(bad, args, k + 1, n + 1)

\* propagate_error(a_f, store, args...) with such an a_f: line 131 is left by
\* the exception before ret is constructed and before the store is touched
propagate_error_store_call(a_f, bad, m, counter, args) ==
  LET c == _propagate_error_calls(bad, args, -1, 0)
      r == propagate_error_store(a_f, m, counter, args)
  IN  IF c.threw
      THEN [threw |-> TRUE, evals |-> c.evals, ret |-> Exact(Zero),
            coefficients |-> <<>>, store |-> m, counter |-> counter]
      ELSE [threw |-> FALSE, evals |-> c.evals, ret |-> r.ret,
            coefficients |-> r.coefficients, store |-> r.store,
            counter |-> r.counter]

(***************************************************************************)
(* statistics.hpp and make_uncertain from a sample.  A sample is a         *)
(* function on 0 .. N-1 of exact values (the range begin .. end).          *)
(***************************************************************************)
\* std::accumulate(begin, end, acc, op) with op(sum, x) = sum + (x-mu)^p,
\* p = 1 with mu = 0 for the plain sum, p = 2 for the squared deviations
RECURSIVE accumulate(_, _, _, _, _)
accumulate(xs, acc, mu, p, k) ==
  IF k >= Arity(xs) THEN acc
  ELSE LET dx == Sub(get_nominal(xs[k]), mu)
       IN  accumulate(xs, Add(acc, IF p = 2 THEN Mul(dx, dx) ELSE dx), mu, p, k + 1)

average(xs) == Div(accumulate(xs, Zero, Zero, 1, 0), Int2R(Arity(xs)))

variance(xs, degree_of_freedom_reduce) ==
  Div(accumulate(xs, Zero, average(xs), 2, 0),
      Int2R(Arity(xs) - degree_of_freedom_reduce))

standard_deviation(xs, degree_of_freedom_reduce) ==
  Sqrt(variance(xs, degree_of_freedom_reduce))

\* make_uncertain(begin, end, tags::use_stdev_for_error{}, d): the body calls
\* standard_deviation(begin, end), which takes the default reduction 1
make_uncertain_stdev(xs, degrees_of_freedom_reduction) ==
  Uncertain(average(xs), standard_deviation(xs, 1))

(***************************************************************************)
(* State.                                                                  *)
(*   a_f, args   the function and the arguments of the propagation call    *)
(*   mat         m_elements of the caller's correlation_matrix             *)
(*   ret         the last call of the library and what it returned         *)
(*   uniq_id     the static counter id of get_uniq_id                      *)
(*   pool        the values the caller holds                               *)
(*   store       m_correlation_coefficients of the correlation_store       *)
(*   objs        the caller's named objects of type add_id<uncertain<..>>  *)
(*   issued      history: the identities get_uniq_id has returned, in      *)
(*               order                                                     *)
(*   threads     per thread: its position in get_uniq_id, the value of id  *)
(*               it has read, and the identities it has obtained           *)
(***************************************************************************)
VARIABLES a_f, args, mat, ret, uniq_id, pool, store, objs, issued, threads

vars == <<a_f, args, mat, ret, uniq_id, pool, store, objs, issued, threads>>

\* the threads that call get_uniq_id
Threads == 1 .. NumThreads

\* no thread is inside get_uniq_id and none has obtained an identity
NoThreads == [t \in Threads |-> [pc |-> "out", reg |-> 0, got |-> {}]]

\* no object declared yet
NoObjs == [k \in {} |-> Exact(Zero)]

NoCall ==
  [op |-> "none", nominal |-> Zero, uncertainty |-> Zero, coefficients |-> <<>>,
   id |-> 0, a_id1 |-> 0, a_id2 |-> 0, a_val |-> Zero, threw |-> FALSE,
   out |-> Zero, a_i |-> 0, a_j |-> 0, dst |-> 0, src |-> 0,
   a_var |-> Exact(Zero), is_uncertain |-> FALSE, upper |-> Zero, lower |-> Zero,
   bad |-> {}, evals |-> 0, degrees_of_freedom_reduction |-> 0, calls |-> <<>>,
   prev |-> "none"]

\* a propagation call returned r
Returned(op, r, coefficients) ==
  [NoCall EXCEPT !.op = op, !.nominal = r.nominal,
                 !.uncertainty = r.uncertainty, !.coefficients = coefficients]

\* a call of the store on the ids a_id1, a_id2
StoreCall(op, a_id1, a_id2, a_val, threw, out) ==
  [NoCall EXCEPT !.op = op, !.a_id1 = a_id1, !.a_id2 = a_id2, !.a_val = a_val,
                 !.threw = threw, !.out = out]

\* the argument lists of 1..MaxArity arguments drawn from the set S
ArgLists(S) == UNION {[0 .. (N - 1) -> S] : N \in 1 .. MaxArity}

NoArgs == [k \in {} |-> Exact(Zero)]

(***************************************************************************)
(* SpecUncorr: propagate_error without correlation, on every mix of exact  *)
(* and uncertain arguments.                                                *)
(***************************************************************************)
MixedArgs ==
  {Exact(Int2R(2)), Exact(Int2R(3))}
    \cup {Uncertain(Int2R(n), Int2R(u)) : n \in {1, 2}, u \in {1, 2}}

InitUncorr ==
  /\ a_f \in FSet
  /\ args \in ArgLists(MixedArgs)
  /\ mat = correlation_matrix(1)
  /\ ret = NoCall
  /\ uniq_id = 0 /\ pool = {} /\ store = EmptyStore
  /\ objs = NoObjs /\ issued = <<>> /\ threads = NoThreads

CallPropagate ==
  /\ ret' = Returned("propagate_error", propagate_error(a_f, args), <<>>)
  /\ UNCHANGED <<threads, a_f, args, mat, uniq_id, pool, store, objs, issued>>

NextUncorr == CallPropagate

SpecUncorr == InitUncorr /\ [][NextUncorr]_vars

(***************************************************************************)
(* SpecMatrix: a correlation_matrix of the size of the argument list is    *)
(* constructed, written through its element accessor and passed to the     *)
(* propagation calls that take a matrix.  These calls compile for          *)
(* arguments of uncertain type only.                                       *)
(***************************************************************************)
UncertainArgs == {Uncertain(Int2R(2), Int2R(1)), Uncertain(Int2R(3), Int2R(2))}

\* the coefficients the caller writes
CoefSet == {Int2R(-1), Int2R(1)}

InitMatrix ==
  /\ a_f \in FSet
  /\ args \in ArgLists(UncertainArgs)
  /\ mat = correlation_matrix(Arity(args))
  /\ ret = NoCall
  /\ uniq_id = 0 /\ pool = {} /\ store = EmptyStore
  /\ objs = NoObjs /\ issued = <<>> /\ threads = NoThreads

\* mat(a_i, a_j) = a_val
MatWrite ==
  \E a_i \in DOMAIN args, a_j \in DOMAIN args, a_val \in CoefSet :
    /\ a_i <= a_j            \* (j,i) names the element (i,j): compute_index
    /\ mat' = MatSet(mat, a_i, a_j, a_val)
    /\ ret' = NoCall
    /\ UNCHANGED <<threads, a_f, args, uniq_id, pool, store, objs, issued>>

CallPropagateMatrix ==
  /\ ret' = Returned("propagate_error_matrix",
                     propagate_error_matrix(a_f, mat, args), <<>>)
  /\ UNCHANGED <<threads, a_f, args, mat, uniq_id, pool, store, objs, issued>>

CallPropagateAndCorrelation ==
  /\ LET r == propagate_error_and_correlation(a_f, args)
     IN  ret' = Returned("propagate_error_and_correlation", r, r.coefficients)
  /\ UNCHANGED <<threads, a_f, args, mat, uniq_id, pool, store, objs, issued>>

CallPropagateAndCorrelationMatrix ==
  /\ LET r == propagate_error_and_correlation_matrix(a_f, mat, args)
     IN  ret' = Returned("propagate_error_and_correlation_matrix", r, r.coefficients)
  /\ UNCHANGED <<threads, a_f, args, mat, uniq_id, pool, store, objs, issued>>

NextMatrix ==
  \/ MatWrite
  \/ CallPropagateMatrix
  \/ CallPropagateAndCorrelation
  \/ CallPropagateAndCorrelationMatrix

SpecMatrix == InitMatrix /\ [][NextMatrix]_vars

(***************************************************************************)
(* SpecMat: a correlation_matrix of size N, N the length of the argument   *)
(* list it is made for, written element by element through its accessor    *)
(* with indices in 0..N-1, in either index order and on the diagonal.      *)
(***************************************************************************)
InitMat ==
  /\ a_f = "sum"
  /\ \E N \in 1 .. MaxDim : args = [k \in 0 .. (N - 1) |-> Uncertain(Int2R(2), One)]
  /\ mat = correlation_matrix(Arity(args))
  /\ ret = [NoCall EXCEPT !.op = "correlation_matrix"]
  /\ uniq_id = 0 /\ pool = {} /\ store = EmptyStore
  /\ objs = NoObjs /\ issued = <<>> /\ threads = NoThreads

\* mat(a_i, a_j) = a_val, the statement recorded
MatAssign ==
  \E a_i \in DOMAIN args, a_j \in DOMAIN args, a_val \in CoefSet :
    /\ mat' = MatSet(mat, a_i, a_j, a_val)
    /\ ret' = [NoCall EXCEPT !.op = "matrix_assign", !.a_i = a_i, !.a_j = a_j,
                             !.a_val = a_val]
    /\ UNCHANGED <<threads, a_f, args, uniq_id, pool, store, objs, issued>>

NextMat == MatAssign

SpecMat == InitMat /\ [][NextMat]_vars

(***************************************************************************)
(* SpecId: the caller declares objects of type add_id<uncertain<double>>,  *)
(* copies and assigns them, gives them new identities and clears them,     *)
(* and calls get_uniq_id and get_id itself.  An object is kept with the    *)
(* history of its identity: origin is the position in issued of the issue  *)
(* its identity came from, 0 after clear_id.                               *)
(***************************************************************************)
\* the values without identity capability get_id is called on
PlainValues == {Exact(Int2R(2)), Exact(Int2R(-3)), Uncertain(Int2R(2), Int2R(4))}

InitId ==
  /\ a_f = "sum"
  /\ args = NoArgs
  /\ mat = correlation_matrix(1)
  /\ ret = NoCall
  /\ uniq_id = 0 /\ pool = {} /\ store = EmptyStore
  /\ objs = NoObjs /\ issued = <<>> /\ threads = NoThreads

\* the next object the caller declares
NextObj == Cardinality(DOMAIN objs) + 1

Declared(k, x, origin) ==
  [o \in DOMAIN objs \cup {k} |->
     IF o = k THEN [val |-> x, origin |-> origin] ELSE objs[o]]

\* add_id<uncertain<double>> x(nom, unc)
IdConstruct ==
  /\ NextObj <= MaxVars
  /\ uniq_id < MaxId
  /\ LET r == add_id_construct(Int2R(2), Int2R(3), uniq_id)
     IN  /\ uniq_id' = r.counter
         /\ issued' = Append(issued, r.val.id)
         /\ objs' = Declared(NextObj, r.val, Len(issued) + 1)
         /\ ret' = [NoCall EXCEPT !.op = "add_id", !.id = r.val.id, !.dst = NextObj]
  /\ UNCHANGED <<threads, a_f, args, mat, pool, store>>

\* add_id<uncertain<double>> y(x)
IdCopyConstruct ==
  \E src \in DOMAIN objs :
    /\ NextObj <= MaxVars
    /\ uniq_id < MaxId
    /\ LET r == add_id_copy(objs[src].val, uniq_id)
       IN  /\ uniq_id' = r.counter
           /\ issued' = IF r.counter = uniq_id THEN issued
                        ELSE Append(issued, r.val.id)
           /\ objs' = Declared(NextObj, r.val,
                               IF r.counter = uniq_id THEN objs[src].origin
                               ELSE Len(issued) + 1)
           /\ ret' = [NoCall EXCEPT !.op = "copy", !.id = r.val.id,
                                    !.dst = NextObj, !.src = src]
    /\ UNCHANGED <<threads, a_f, args, mat, pool, store>>

\* y = x
IdAssign ==
  \E dst \in DOMAIN objs, src \in DOMAIN objs :
    /\ dst # src
    /\ uniq_id < MaxId
    /\ LET r == add_id_copy(objs[src].val, uniq_id)
       IN  /\ uniq_id' = r.counter
           /\ issued' = IF r.counter = uniq_id THEN issued
                        ELSE Append(issued, r.val.id)
           /\ objs' = Declared(dst, r.val,
                               IF r.counter = uniq_id THEN objs[src].origin
                               ELSE Len(issued) + 1)
           /\ ret' = [NoCall EXCEPT !.op = "assign", !.id = r.val.id,
                                    !.dst = dst, !.src = src]
    /\ UNCHANGED <<threads, a_f, args, mat, pool, store>>

\* x = uncertain<double>(2, 4)
IdAssignBase ==
  \E dst \in DOMAIN objs :
    /\ objs' = Declared(dst, add_id_assign_base(objs[dst].val, Uncertain(Int2R(2), Int2R(4))),
                        objs[dst].origin)
    /\ ret' = [NoCall EXCEPT !.op = "assign_base", !.id = objs[dst].val.id, !.dst = dst]
    /\ UNCHANGED <<threads, a_f, args, mat, uniq_id, pool, store, issued>>

\* x.new_id()
IdNew ==
  \E dst \in DOMAIN objs :
    /\ uniq_id < MaxId
    /\ LET r == new_id(objs[dst].val, uniq_id)
       IN  /\ uniq_id' = r.counter
           /\ issued' = Append(issued, r.val.id)
           /\ objs' = Declared(dst, r.val, Len(issued) + 1)
           /\ ret' = [NoCall EXCEPT !.op = "new_id", !.id = r.val.id, !.dst = dst]
    /\ UNCHANGED <<threads, a_f, args, mat, pool, store>>

\* x.clear_id()
IdClear ==
  \E dst \in DOMAIN objs :
    /\ objs' = Declared(dst, clear_id(objs[dst].val), 0)
    /\ ret' = [NoCall EXCEPT !.op = "clear_id", !.id = clear_id(objs[dst].val).id,
                             !.dst = dst]
    /\ UNCHANGED <<threads, a_f, args, mat, uniq_id, pool, store, issued>>

\* auto id = get_uniq_id()
CallGetUniqId ==
  /\ uniq_id < MaxId
  /\ LET r == get_uniq_id(uniq_id)
     IN  /\ uniq_id' = r.counter
         /\ issued' = Append(issued, r.id)
         /\ ret' = [NoCall EXCEPT !.op = "get_uniq_id", !.id = r.id]
  /\ UNCHANGED <<threads, a_f, args, mat, pool, store, objs>>

\* get_id(a_var) on a value with or without identity capability
CallGetId ==
  \E a_var \in PlainValues \cup {objs[o].val : o \in DOMAIN objs} :
    /\ ret' = [NoCall EXCEPT !.op = "get_id", !.id = get_id(a_var), !.a_var = a_var]
    /\ UNCHANGED <<threads, a_f, args, mat, uniq_id, pool, store, objs, issued>>

\* is_uncertain, get_nominal, get_uncertainty, get_upper and get_lower of a_var
CallAdapters ==
  \E a_var \in PlainValues \cup {objs[o].val : o \in DOMAIN objs} :
    /\ ret' = [NoCall EXCEPT !.op = "adapters", !.a_var = a_var,
                             !.is_uncertain = is_uncertain(a_var),
                             !.nominal = get_nominal(a_var),
                             !.uncertainty = get_uncertainty(a_var),
                             !.upper = get_upper(a_var),
                             !.lower = get_lower(a_var)]
    /\ UNCHANGED <<threads, a_f, args, mat, uniq_id, pool, store, objs, issued>>

NextId ==
  \/ CallAdapters
  \/ IdConstruct
  \/ IdCopyConstruct
  \/ IdAssign
  \/ IdAssignBase
  \/ IdNew
  \/ IdClear
  \/ CallGetUniqId
  \/ CallGetId

SpecId == InitId /\ [][NextId]_vars

(***************************************************************************)
(* The store.  The caller constructs values, with an identity              *)
(* (add_id<uncertain<double>>) or without (uncertain<double>), records     *)
(* correlations between them in a correlation_store with add and set,      *)
(* reads them with get, and propagates through the store; it may keep the  *)
(* result of a propagation as one more value.  A call other than a         *)
(* propagation leaves no argument list behind.  SpecStoreOps has the       *)
(* caller's own calls of the store, SpecStore the propagations.            *)
(***************************************************************************)
\* the nominal values and uncertainties the caller constructs values from
NomSet == {Int2R(2)}

UncSet == {Int2R(3), Int2R(4)}

\* the coefficients the caller records
StoreCoefSet == {Int2R(-1), Rat(1, 2)}

\* the argument lists of a propagation through the store
StoreArgLists(S) == UNION {[0 .. (N - 1) -> S] : N \in 1 .. MaxStoreArity}

InitStore ==
  /\ a_f = "sum"
  /\ args = NoArgs
  /\ mat = correlation_matrix(1)
  /\ ret = NoCall
  /\ uniq_id = 0
  /\ pool = {}
  /\ store = EmptyStore
  /\ objs = NoObjs /\ issued = <<>> /\ threads = NoThreads

\* add_id<uncertain<double>> x(nom, unc)
Construct ==
  \E nom \in NomSet, unc \in UncSet :
    /\ Cardinality(pool) < MaxVars
    /\ uniq_id < MaxId
    /\ LET fresh == get_uniq_id(uniq_id)
       IN  /\ pool' = pool \cup {Identified(nom, unc, fresh.id)}
           /\ uniq_id' = fresh.counter
           /\ issued' = Append(issued, fresh.id)
           /\ ret' = [NoCall EXCEPT !.op = "add_id", !.id = fresh.id]
    /\ a_f' = "sum" /\ args' = NoArgs
    /\ UNCHANGED <<threads, mat, store, objs>>

\* uncertain<double> x(nom, unc): a value without identity
ConstructPlain ==
  \E nom \in NomSet, unc \in UncSet :
    /\ Cardinality(pool) < MaxVars
    /\ pool' = pool \cup {Uncertain(nom, unc)}
    /\ ret' = [NoCall EXCEPT !.op = "uncertain"]
    /\ a_f' = "sum" /\ args' = NoArgs
    /\ UNCHANGED <<threads, mat, uniq_id, store, objs, issued>>

\* store.add(a_v1, a_v2, a_val)
StoreAdd ==
  \E a_v1 \in pool, a_v2 \in pool, a_val \in StoreCoefSet :
    LET r == add(store, a_v1, a_v2, a_val)
    IN  /\ Cardinality(DOMAIN r.store) <= MaxEntries
        /\ store' = r.store
        /\ ret' = [StoreCall("add", get_id(a_v1), get_id(a_v2), a_val, r.threw, Zero)
                     EXCEPT !.prev = IF {ret.a_id1, ret.a_id2}
                                          = {get_id(a_v1), get_id(a_v2)}
                                      THEN ret.op ELSE "other"]
        /\ a_f' = "sum" /\ args' = NoArgs
        /\ UNCHANGED <<threads, mat, uniq_id, pool, objs, issued>>

\* store.set(a_v1, a_v2, a_val)
StoreSet ==
  \E a_v1 \in pool, a_v2 \in pool, a_val \in StoreCoefSet :
    /\ Cardinality(DOMAIN set(store, a_v1, a_v2, a_val)) <= MaxEntries
    /\ store' = set(store, a_v1, a_v2, a_val)
    /\ ret' = StoreCall("set", get_id(a_v1), get_id(a_v2), a_val, FALSE, Zero)
    /\ a_f' = "sum" /\ args' = NoArgs
    /\ UNCHANGED <<threads, mat, uniq_id, pool, objs, issued>>

\* store.get(a_v1, a_v2)
StoreGet ==
  \E a_v1 \in pool, a_v2 \in pool :
    LET r == get(store, a_v1, a_v2)
    IN  /\ ret' = StoreCall("get", get_id(a_v1), get_id(a_v2), Zero, r.threw, r.out)
        /\ store' = get_with_ids_map(store, get_id(a_v1), get_id(a_v2))
        /\ a_f' = "sum" /\ args' = NoArgs
        /\ UNCHANGED <<threads, mat, uniq_id, pool, objs, issued>>

\* the caller may keep a result whose uncertainty is a rational number: the
\* sums the code takes of kept values then stay in the model's number form
Keepable(v) == IsRat(v.nom) /\ IsRat(v.unc)

\* auto z = propagate_error(f, store, args...), z kept or not
CallPropagateStore ==
  \E f \in FSet, as \in StoreArgLists(pool) :
    /\ uniq_id < MaxId
    /\ LET r == propagate_error_store(f, store, uniq_id, as)
       IN  /\ Cardinality(DOMAIN r.store) <= MaxEntries
           /\ \E keep \in BOOLEAN :
                /\ keep => Keepable(r.ret) /\ Cardinality(pool) < MaxVars
                /\ pool' = IF keep THEN pool \cup {r.ret} ELSE pool
           /\ store' = r.store
           /\ uniq_id' = r.counter
           /\ issued' = Append(issued, r.ret.id)
           /\ ret' = [NoCall EXCEPT !.op = "propagate_error_store",
                                    !.nominal = r.ret.nom,
                                    !.uncertainty = r.ret.unc,
                                    !.id = r.ret.id,
                                    !.coefficients = r.coefficients]
    /\ a_f' = f /\ args' = as
    /\ UNCHANGED <<threads, mat, objs>>

\* store.set(a_v1, a_v2, a_val) as a statement between propagations
Correlate ==
  \E a_v1 \in pool, a_v2 \in pool, a_val \in StoreCoefSet :
    /\ Cardinality(DOMAIN set(store, a_v1, a_v2, a_val)) <= MaxEntries
    /\ store' = set(store, a_v1, a_v2, a_val)
    /\ ret' = NoCall
    /\ a_f' = "sum" /\ args' = NoArgs
    /\ UNCHANGED <<threads, mat, uniq_id, pool, objs, issued>>

\* SpecStoreOps: the caller's own calls of the store
NextStoreOps ==
  \/ Construct
  \/ ConstructPlain
  \/ StoreAdd
  \/ StoreSet
  \/ StoreGet

SpecStoreOps == InitStore /\ [][NextStoreOps]_vars

\* SpecStore: propagation through a store the caller has written
NextStore ==
  \/ Construct
  \/ ConstructPlain
  \/ Correlate
  \/ CallPropagateStore

SpecStore == InitStore /\ [][NextStore]_vars

\* the sets of calls on which the caller's function throws
BadSets == SUBSET (0 .. MaxStoreArity)

\* try { propagate_error(f, store, args...); } catch(...) {}, f throwing on
\* the calls in bad
CallPropagateStoreThrowing ==
  \E f \in FSet, bad \in BadSets, as \in StoreArgLists(pool) :
    /\ uniq_id < MaxId
    /\ \E r \in {propagate_error_store_call(f, bad, store, uniq_id, as)} :
           /\ Cardinality(DOMAIN r.store) <= MaxEntries
           /\ store' = r.store
           /\ uniq_id' = r.counter
           /\ issued' = IF r.threw THEN issued ELSE Append(issued, r.ret.id)
           /\ ret' = [NoCall EXCEPT !.op = "propagate_error_store_call",
                                    !.nominal = r.ret.nom,
                                    !.uncertainty = r.ret.unc,
                                    !.id = r.ret.id,
                                    !.coefficients = r.coefficients,
                                    !.threw = r.threw,
                                    !.bad = bad,
                                    !.evals = r.evals]
    /\ a_f' = f /\ args' = as
    /\ UNCHANGED <<threads, mat, pool, objs>>

\* SpecThrow: propagation of a function that may throw
NextThrow ==
  \/ Construct
  \/ Correlate
  \/ CallPropagateStoreThrowing

SpecThrow == InitStore /\ [][NextThrow]_vars

\* every number of the state is in the model's number form
NumbersRepresentable ==
  /\ Representable(ret.nominal) /\ Representable(ret.uncertainty)
  /\ \A k \in DOMAIN ret.coefficients : Representable(ret.coefficients[k])
  /\ \A key \in DOMAIN store : Representable(store[key])

(***************************************************************************)
(* SpecChain: a chained calculation through one store.  The caller         *)
(* declares the tracked inputs x and y, may record a correlation between   *)
(* them, and computes                                                      *)
(*   z = propagate_error(a + b, store, x, y)                               *)
(*   w = propagate_error(a - b, store, z, x)                               *)
(*   v = propagate_error(a - b, store, w, y)                               *)
(* keeping every result.  The values are told apart by their identities,   *)
(* issued in this order.  The chain goes on from z and from w when their   *)
(* uncertainty is rational (Keepable).                                     *)
(***************************************************************************)
ChainNomSet == {Int2R(1), Int2R(2)}

\* uncertainties with sums of squares that are squares: 3, 4 -> 5; 5, 12 -> 13
ChainUncSet == {Int2R(3), Int2R(4), Int2R(5), Int2R(12)}

\* the n-th value of the chain: x, y, z, w, v
Nth(n) == CHOOSE a \in pool : get_id(a) = n

\* add_id<uncertain<double>> x(nom, unc), then y
ChainConstruct ==
  \E nom \in ChainNomSet, unc \in ChainUncSet :
    /\ Cardinality(pool) < 2
    /\ LET r == add_id_construct(nom, unc, uniq_id)
       IN  /\ pool' = pool \cup {r.val}
           /\ uniq_id' = r.counter
           /\ issued' = Append(issued, r.val.id)
           /\ ret' = [NoCall EXCEPT !.op = "add_id", !.id = r.val.id]
    /\ UNCHANGED <<threads, a_f, args, mat, store, objs>>

\* store.set(x, y, a_val)
ChainCorrelate ==
  \E a_val \in StoreCoefSet :
    /\ Cardinality(pool) = 2 /\ store = EmptyStore
    /\ store' = set(store, Nth(1), Nth(2), a_val)
    /\ ret' = StoreCall("set", get_id(Nth(1)), get_id(Nth(2)), a_val, FALSE, Zero)
    /\ UNCHANGED <<threads, a_f, args, mat, uniq_id, pool, objs, issued>>

\* auto r = propagate_error(f, store, a, b), r kept; the chain goes on from r
\* unless r is its last value
ChainPropagate(f, a, b, last) ==
  LET as == [k \in 0 .. 1 |-> IF k = 0 THEN a ELSE b]
      r == propagate_error_store(f, store, uniq_id, as)
  IN  /\ last \/ Keepable(r.ret)
      /\ pool' = pool \cup {r.ret}
      /\ store' = r.store
      /\ uniq_id' = r.counter
      /\ issued' = Append(issued, r.ret.id)
      /\ ret' = [NoCall EXCEPT !.op = "propagate_error_store",
                               !.nominal = r.ret.nom,
                               !.uncertainty = r.ret.unc,
                               !.id = r.ret.id,
                               !.coefficients = r.coefficients]
      /\ a_f' = f /\ args' = as
      /\ UNCHANGED <<threads, mat, objs>>

ChainSum == Cardinality(pool) = 2 /\ ChainPropagate("sum", Nth(1), Nth(2), FALSE)

ChainDifference == Cardinality(pool) = 3 /\ ChainPropagate("sub", Nth(3), Nth(1), FALSE)

ChainBack == Cardinality(pool) = 4 /\ ChainPropagate("sub", Nth(4), Nth(2), TRUE)

NextChain ==
  \/ ChainConstruct
  \/ ChainCorrelate
  \/ ChainSum
  \/ ChainDifference
  \/ ChainBack

SpecChain == InitStore /\ [][NextChain]_vars

(***************************************************************************)
(* The quantities the specification speaks of, written from its text:      *)
(* independent of the operators above that model the code.                 *)
(***************************************************************************)
\* nominal_of / upper_of of the specification
NominalOf(a) == a.nom

UpperOf(a) == IF a.unc_t THEN Add(a.nom, a.unc) ELSE a.nom

\* f at the nominal of every input
NominalResultOf(f, xs) == Apply(f, [i \in DOMAIN xs |-> NominalOf(xs[i])])

\* deviation[k]: f at all inputs nominal except input k at its upper bound,
\* minus the nominal result
DeviationOf(f, xs, k) ==
  Sub(Apply(f, [i \in DOMAIN xs |->
                  IF i = k THEN UpperOf(xs[i]) ELSE NominalOf(xs[i])]),
      NominalResultOf(f, xs))

RECURSIVE SumOver(_, _)
\* the sum of the function t over the finite set S
SumOver(S, t) ==
  IF S = {} THEN Zero
  ELSE LET x == CHOOSE x \in S : TRUE
       IN  Add(t[x], SumOver(S \ {x}, t))

Sq(x) == Mul(x, x)

AbsR(x) == [x EXCEPT !.s = AbsInt(x.s)]

\* sum_k deviation[k]^2
QuadratureSumOf(f, xs) ==
  SumOver(DOMAIN xs, [k \in DOMAIN xs |-> Sq(DeviationOf(f, xs, k))])

PairsOf(xs) == {p \in (DOMAIN xs) \X (DOMAIN xs) : p[1] < p[2]}

\* sum_k deviation[k]^2 + sum_{i<j} 2*corr(i,j)*deviation[i]*deviation[j]
CorrelatedSumOf(f, xs, corr) ==
  Add(QuadratureSumOf(f, xs),
      SumOver(PairsOf(xs), [p \in PairsOf(xs) |->
        Mul(Int2R(2), Mul(corr[p], Mul(DeviationOf(f, xs, p[1]),
                                       DeviationOf(f, xs, p[2]))))]))

\* deviation[k] + sum_{j # k} corr(k,j)*deviation[j]
CoefficientNumeratorOf(f, xs, corr, k) ==
  Add(DeviationOf(f, xs, k),
      SumOver(DOMAIN xs \ {k},
              [j \in DOMAIN xs \ {k} |-> Mul(corr[<<k, j>>], DeviationOf(f, xs, j))]))

\* the same quantities of the call the state records
NominalResult == NominalResultOf(a_f, args)

Deviation(k) == DeviationOf(a_f, args, k)

QuadratureSum == QuadratureSumOf(a_f, args)

CorrelatedSum(corr) == CorrelatedSumOf(a_f, args, corr)

Pairs == PairsOf(args)

CoefficientNumerator(corr, k) == CoefficientNumeratorOf(a_f, args, corr, k)

\* matrix(i,j) as the caller reads it
MatrixCorr == [p \in (DOMAIN args) \X (DOMAIN args) |-> MatGet(mat, p[1], p[2])]

NoCorr == [p \in (DOMAIN args) \X (DOMAIN args) |-> Zero]

\* combined_uncertainty of the specification
CombinedUncertainty(corr) == Sqrt(CorrelatedSum(corr))

UncertainInputs == {k \in DOMAIN args : args[k].unc_t}

(***************************************************************************)
(* Claims on propagation without correlation (SpecUncorr).                 *)
(***************************************************************************)
\* C1: uncorrelated propagate_error returns nominal = f(nominals) and an
\* uncertainty whose square is the sum over k of deviation[k]^2; N inputs of
\* equal deviation d give uncertainty^2 = N*d^2.
C1_UncorrelatedQuadrature ==
  ret.op = "propagate_error" =>
    /\ ret.nominal = NominalResult
    /\ Sq(ret.uncertainty) = QuadratureSum
    /\ \A k \in DOMAIN args :
         (\A j \in DOMAIN args : Deviation(j) = Deviation(k))
           => Sq(ret.uncertainty) = Mul(Int2R(Arity(args)), Sq(Deviation(k)))

C1_Witness ==
  /\ ret.op = "propagate_error"
  /\ Arity(args) = MaxArity
  /\ UncertainInputs = DOMAIN args
  /\ \A k \in DOMAIN args : Deviation(k) = Deviation(0) /\ Deviation(k) # Zero
  /\ ~IsRat(ret.uncertainty)

\* C3: an exact input contributes a deviation of exactly zero: with exactly
\* one uncertain input k the uncertainty is |f(.., upper_of(a_k), ..) -
\* f(nominals)| and the nominal is f(nominals).
C3_ExactPassThrough ==
  ret.op = "propagate_error" =>
    /\ \A j \in DOMAIN args \ UncertainInputs :
         _propagate_error(a_f, args).deviations[j] = Zero
    /\ \A k \in UncertainInputs :
         UncertainInputs = {k} =>
           /\ ret.uncertainty = AbsR(Deviation(k))
           /\ ret.nominal = NominalResult

C3_Witness ==
  /\ ret.op = "propagate_error"
  /\ Arity(args) >= 2
  /\ \E k \in DOMAIN args :
       /\ UncertainInputs = {k}
       /\ Deviation(k) # Zero
       /\ ret.uncertainty = AbsR(Deviation(k))

(***************************************************************************)
(* Claims on propagation with a correlation matrix (SpecMatrix).           *)
(***************************************************************************)
\* the two-input cases of C2: |d0 + d1| at matrix(0,1) = 1, |d0 - d1| at -1
TwoInputCases ==
  Arity(args) = 2 =>
    /\ MatGet(mat, 0, 1) = One
         => ret.uncertainty = AbsR(Add(Deviation(0), Deviation(1)))
    /\ MatGet(mat, 0, 1) = Int2R(-1)
         => ret.uncertainty = AbsR(Sub(Deviation(0), Deviation(1)))

\* C2 as stated: propagate_error with a matrix returns an uncertainty whose
\* square is sum_k deviation[k]^2 + sum_{i<j} 2*matrix(i,j)*deviation[i]*
\* deviation[j]; for two inputs it is |d0 + d1| at matrix(0,1) = 1 and
\* |d0 - d1| at matrix(0,1) = -1.
C2_Original ==
  ret.op = "propagate_error_matrix" =>
    /\ Sq(ret.uncertainty) = CorrelatedSum(MatrixCorr)
    /\ TwoInputCases

\* C2 amended: the square of the uncertainty is that sum whenever the sum is
\* not negative; when the sum is negative (a matrix that is no correlation
\* matrix of any distribution) the uncertainty is NaN.
C2_MatrixQuadrature ==
  ret.op = "propagate_error_matrix" =>
    /\ ret.nominal = NominalResult
    /\ CorrelatedSum(MatrixCorr).s >= 0
         => Sq(ret.uncertainty) = CorrelatedSum(MatrixCorr)
    /\ CorrelatedSum(MatrixCorr).s < 0 => ret.uncertainty = NaN
    /\ TwoInputCases

C2_Witness ==
  /\ ret.op = "propagate_error_matrix"
  /\ Arity(args) >= 3
  /\ \E p \in Pairs : MatrixCorr[p] = One
  /\ \E p \in Pairs : MatrixCorr[p] = Int2R(-1)
  /\ CorrelatedSum(MatrixCorr).s > 0
  /\ CorrelatedSum(MatrixCorr) # QuadratureSum
  /\ Sq(ret.uncertainty) = CorrelatedSum(MatrixCorr)

\* C10: propagate_error_and_correlation returns one coefficient per input, in
\* input order, coefficient[k] = (deviation[k] + sum_{j # k} corr(k,j) *
\* deviation[j]) / combined_uncertainty, corr(k,j) = 0 without a matrix and
\* matrix(k,j) with one.
C10_Coefficients ==
  /\ ret.op = "propagate_error_and_correlation" =>
       /\ DOMAIN ret.coefficients = DOMAIN args
       /\ \A k \in DOMAIN args :
            ret.coefficients[k] =
              Div(CoefficientNumerator(NoCorr, k), CombinedUncertainty(NoCorr))
  /\ ret.op = "propagate_error_and_correlation_matrix" =>
       /\ DOMAIN ret.coefficients = DOMAIN args
       /\ \A k \in DOMAIN args :
            ret.coefficients[k] =
              Div(CoefficientNumerator(MatrixCorr, k), CombinedUncertainty(MatrixCorr))

C10_Witness ==
  /\ ret.op = "propagate_error_and_correlation_matrix"
  /\ Arity(args) >= 3
  /\ \E p \in Pairs : MatrixCorr[p] # Zero
  /\ IsFin(ret.uncertainty) /\ ret.uncertainty # Zero
  /\ \E k \in DOMAIN args :
       /\ CoefficientNumerator(MatrixCorr, k) # Deviation(k)
       /\ IsFin(ret.coefficients[k]) /\ ret.coefficients[k] # Zero

(***************************************************************************)
(* Claims on the caller's calls of the correlation store (SpecStoreOps).   *)
(* A step is the call that ret names after it.                             *)
(***************************************************************************)
\* the identities a behaviour can issue, and 0
Ids == 0 .. MaxId

\* the store m holds an entry for the unordered pair {i, j}
HasEntry(m, i, j) == \E key \in DOMAIN m : {key[1], key[2]} = {i, j}

\* the value of that entry
EntryOf(m, i, j) == m[CHOOSE key \in DOMAIN m : {key[1], key[2]} = {i, j}]

\* every entry of m other than the one of the pair {i, j} is in n unchanged
OthersKept(m, n, i, j) ==
  \A key \in DOMAIN m :
    {key[1], key[2]} # {i, j} => key \in DOMAIN n /\ n[key] = m[key]

\* C4: add on a pair that has an entry, given in either argument order, fails
\* with an error and leaves the store unchanged; on an absent pair it inserts
\* the value and leaves every other entry as it was.
C4_AddDuplicateFails ==
  [][ret'.op = "add" =>
       LET i == ret'.a_id1
           j == ret'.a_id2
       IN  /\ HasEntry(store, i, j) => ret'.threw /\ store' = store
           /\ ~HasEntry(store, i, j) =>
                /\ ~ret'.threw
                /\ HasEntry(store', i, j) /\ EntryOf(store', i, j) = ret'.a_val
                /\ OthersKept(store, store', i, j)
                /\ Cardinality(DOMAIN store') = Cardinality(DOMAIN store) + 1]_vars

C4_Witness ==
  /\ ret.op = "add" /\ ret.threw
  /\ ret.a_id1 > ret.a_id2
  /\ HasEntry(store, ret.a_id1, ret.a_id2)
  /\ EntryOf(store, ret.a_id1, ret.a_id2) # ret.a_val
  /\ Cardinality(DOMAIN store) >= 2

\* C5: after set(a, b, v), whether or not the pair had an entry, get(a, b) and
\* get(b, a) both return v, and a later add, set or get on another pair
\* leaves what get returns for the pair as it was.
C5_SetThenGet ==
  [][/\ ret'.op = "set" =>
          /\ get_with_ids_call(store', ret'.a_id1, ret'.a_id2)
               = [out |-> ret'.a_val, threw |-> FALSE]
          /\ get_with_ids_call(store', ret'.a_id2, ret'.a_id1)
               = [out |-> ret'.a_val, threw |-> FALSE]
     /\ ret'.op \in {"add", "set", "get"} =>
          \A i \in Ids, j \in Ids :
            {i, j} # {ret'.a_id1, ret'.a_id2} =>
              /\ get_with_ids_call(store', i, j) = get_with_ids_call(store, i, j)
              /\ get_with_ids_call(store', i, j) = get_with_ids_call(store', j, i)]_vars

C5_Witness ==
  /\ ret.op = "set"
  /\ ret.a_id1 > ret.a_id2
  /\ Cardinality(DOMAIN store) = MaxEntries
  /\ get_with_ids(store, ret.a_id2, ret.a_id1) = ret.a_val
  /\ \E key \in DOMAIN store : store[key] # ret.a_val

\* C6: get returns the stored value when the unordered pair has an entry and
\* zero when it has none; it never fails with an error.
C6_GetDefaultsToZero ==
  [][ret'.op = "get" =>
       /\ ~ret'.threw
       /\ HasEntry(store, ret'.a_id1, ret'.a_id2)
            => ret'.out = EntryOf(store, ret'.a_id1, ret'.a_id2)
       /\ ~HasEntry(store, ret'.a_id1, ret'.a_id2) => ret'.out = Zero
       /\ store' = store]_vars

C6_Witness ==
  /\ ret.op = "get"
  /\ ~ret.threw /\ ret.out = Zero
  /\ ret.a_id1 # ret.a_id2
  /\ store # EmptyStore
  /\ ~HasEntry(store, ret.a_id1, ret.a_id2)

(***************************************************************************)
(* Claims on propagation through a correlation store (SpecStore).          *)
(***************************************************************************)
\* c(k,j): what get(a_k, a_j) returns on the store m for the inputs xs
StoreCorr(m, xs) ==
  [p \in (DOMAIN xs) \X (DOMAIN xs) |->
     get_with_ids(m, get_id(xs[p[1]]), get_id(xs[p[2]]))]

\* no two inputs of xs carry the same identity
DistinctIds(xs) ==
  \A k \in DOMAIN xs, j \in DOMAIN xs : k # j => get_id(xs[k]) # get_id(xs[j])

\* after the call, get(r, a_k) is the coefficient of input k computed from
\* the correlations c the store held before the call
CoefficientRecorded(k) ==
  get_with_ids(store', ret'.id, get_id(args'[k]))
    = Div(CoefficientNumeratorOf(a_f', args', StoreCorr(store, args'), k),
          ret'.uncertainty)

\* C7 as stated: after propagate_error(f, store, a_0..a_{N-1}) returns r, for
\* each input k get(r, a_k) = (deviation[k] + sum_{j # k} c(k,j) *
\* deviation[j]) / combined_uncertainty, c(k,j) the value get(a_k, a_j) had
\* before the call.
C7_Original ==
  [][ret'.op = "propagate_error_store" =>
       \A k \in DOMAIN args' : CoefficientRecorded(k)]_vars

\* C7 amended: the same for a call whose inputs carry pairwise distinct
\* identities (the quotient being the floating-point one).
C7_StoreCoefficients ==
  [][ret'.op = "propagate_error_store" /\ DistinctIds(args') =>
       \A k \in DOMAIN args' : CoefficientRecorded(k)]_vars

C7_Witness ==
  /\ ret.op = "propagate_error_store"
  /\ Arity(args) = 2 /\ DistinctIds(args)
  /\ get_id(args[0]) # 0 /\ get_id(args[1]) # 0
  /\ get_with_ids(store, get_id(args[0]), get_id(args[1])) # Zero
  /\ IsFin(ret.uncertainty) /\ ret.uncertainty # Zero
  /\ \A k \in DOMAIN args :
       /\ get_with_ids(store, ret.id, get_id(args[k])) = ret.coefficients[k]
       /\ IsFin(ret.coefficients[k]) /\ ret.coefficients[k] # Zero
       /\ ret.coefficients[k] # Div(Deviation(k), ret.uncertainty)

\* C8: the result of a propagation through a store carries a fresh identity:
\* non-zero, different from the identity of every input of the call, and
\* different from every identity issued before the call (those up to the
\* counter, those of the caller's values and those in the keys of the store).
C8_FreshIdentity ==
  [][ret'.op = "propagate_error_store" =>
       /\ ret'.id # 0
       /\ \A k \in DOMAIN args' : ret'.id # get_id(args'[k])
       /\ ret'.id \notin 1 .. uniq_id
       /\ \A v \in pool : ret'.id # get_id(v)
       /\ \A key \in DOMAIN store : ret'.id # key[1] /\ ret'.id # key[2]]_vars

C8_Witness ==
  /\ ret.op = "propagate_error_store"
  /\ ret.id = MaxId
  /\ \E k \in DOMAIN args : get_id(args[k]) = ret.id - 1
  /\ \E v \in pool : get_id(v) = 1

\* the store m without its entries whose key contains the identity 0
WithoutZeroKeys(m) ==
  [key \in {x \in DOMAIN m : x[1] # 0 /\ x[2] # 0} |-> m[key]]

\* C9: in a propagation through a store an input of identity 0 is treated as
\* uncorrelated with every other input whatever the store contains: neither
\* the combined uncertainty nor the coefficients recorded for the result
\* depend on an entry whose key contains 0, that is, they are what the call
\* returns on the store without those entries.
C9_ZeroIdentityIgnored ==
  [][ret'.op = "propagate_error_store" =>
       LET clean == propagate_error_store(a_f', WithoutZeroKeys(store), uniq_id, args')
       IN  /\ ret'.uncertainty = clean.ret.unc
           /\ ret'.coefficients = clean.coefficients]_vars

(***************************************************************************)
(* Claims on the correlation matrix (SpecMat).                             *)
(***************************************************************************)
\* C11: for a correlation_matrix of size N >= 1, matrix(i,i) reads 1 for every
\* i in 0..N-1 in every reachable state, that is after any sequence of writes
\* through the element accessor with indices in 0..N-1.
C11_DiagonalOne ==
  \A i \in DOMAIN args : MatGet(mat, i, i) = One

\* C12: a freshly constructed matrix reads 0 at every off-diagonal (i,j), and
\* after writing v to matrix(i,j) with i # j both matrix(i,j) and matrix(j,i)
\* read v.
C12_Symmetric ==
  /\ ret.op = "correlation_matrix" =>
       \A i \in DOMAIN args, j \in DOMAIN args : i # j => MatGet(mat, i, j) = Zero
  /\ ret.op = "matrix_assign" /\ ret.a_i # ret.a_j =>
       /\ MatGet(mat, ret.a_i, ret.a_j) = ret.a_val
       /\ MatGet(mat, ret.a_j, ret.a_i) = ret.a_val

C12_Witness ==
  /\ ret.op = "matrix_assign"
  /\ ret.a_i > ret.a_j
  /\ Arity(args) >= 3
  /\ MatGet(mat, ret.a_j, ret.a_i) = ret.a_val
  /\ \E i \in DOMAIN args, j \in DOMAIN args :
       i # j /\ MatGet(mat, i, j) # ret.a_val /\ MatGet(mat, i, j) # Zero

(***************************************************************************)
(* Claims on identities (SpecId).                                          *)
(***************************************************************************)
\* C13: over any sequence of constructions, copies, assignments, new_id and
\* clear_id on identified values, two values hold the same non-zero identity
\* only if one obtained it from the other through copy or assignment (they
\* descend from the same issue); a copy or assignment from an identified
\* value gives the target the source's identity.
C13_SharedOnlyByCopy ==
  [][/\ \A a \in DOMAIN objs', b \in DOMAIN objs' :
          objs'[a].val.id = objs'[b].val.id /\ objs'[a].val.id # 0
            => objs'[a].origin = objs'[b].origin
     /\ ret'.op \in {"copy", "assign"} =>
          objs'[ret'.dst].val.id = objs[ret'.src].val.id]_vars

C13_Witness ==
  /\ ret.op = "assign"
  /\ objs[ret.dst].val.id = objs[ret.src].val.id
  /\ objs[ret.dst].val.id # 0
  /\ objs[ret.dst].val.id < uniq_id
  /\ objs[ret.dst].origin = objs[ret.src].origin

\* C14: every identity issued by the process-wide counter (get_uniq_id,
\* construction of an identified value, new_id) is non-zero and strictly
\* greater than every identity issued earlier; clear_id sets the identity to
\* 0 and get_id of a value without identity capability returns 0.
C14_IssuedIncreasing ==
  /\ \A n \in DOMAIN issued :
       issued[n] # 0 /\ \A e \in 1 .. (n - 1) : issued[e] < issued[n]
  /\ ret.op \in {"get_uniq_id", "add_id", "new_id"} =>
       /\ issued # <<>> /\ ret.id = issued[Len(issued)]
       /\ ret.op # "get_uniq_id" => objs[ret.dst].val.id = ret.id
  /\ ret.op = "clear_id" => ret.id = 0 /\ objs[ret.dst].val.id = 0
  /\ ret.op = "get_id" /\ ~ret.a_var.id_t => ret.id = 0

C14_Witness ==
  /\ ret.op = "new_id"
  /\ Len(issued) = MaxId
  /\ \E o \in DOMAIN objs : objs[o].val.id = 0 /\ o # ret.dst

\* C15: for an exact (plain) value x, is_uncertain(x) is false, get_nominal(x)
\* = get_upper(x) = get_lower(x) = x and get_uncertainty(x) = 0; for an
\* uncertain value u, is_uncertain(u) is true, get_nominal(u) = u.nominal(),
\* get_uncertainty(u) = u.uncertainty(), get_upper(u) = nominal + uncertainty
\* and get_lower(u) = nominal - uncertainty.
C15_Adapters ==
  ret.op = "adapters" =>
    LET x == ret.a_var
    IN  /\ ~x.unc_t =>
             /\ ~ret.is_uncertain
             /\ ret.nominal = x.nom /\ ret.upper = x.nom /\ ret.lower = x.nom
             /\ ret.uncertainty = Zero
        /\ x.unc_t =>
             /\ ret.is_uncertain
             /\ ret.nominal = x.nom /\ ret.uncertainty = x.unc
             /\ ret.upper = Add(x.nom, x.unc)
             /\ ret.lower = Sub(x.nom, x.unc)

C15_Witness ==
  /\ ret.op = "adapters"
  /\ ret.a_var.unc_t /\ ret.a_var.id_t
  /\ ret.is_uncertain
  /\ ret.upper # ret.nominal /\ ret.lower # ret.nominal /\ ret.lower # ret.upper
  /\ ret.lower.s < 0

(***************************************************************************)
(* Claims on chained propagation through a store (SpecChain).              *)
(***************************************************************************)
\* C16: for tracked inputs x and y with no store entry between them,
\* z = propagate_error(a+b, store, x, y) followed by
\* w = propagate_error(a-b, store, z, x) yields for w an uncertainty equal to
\* y's uncertainty.
C16_ChainReproducesInput ==
  /\ ret.op = "propagate_error_store" /\ Cardinality(pool) = 4
  /\ ~HasEntry(store, get_id(Nth(1)), get_id(Nth(2)))
  => ret.uncertainty = uncertainty(Nth(2)) /\ uncertainty(Nth(4)) = uncertainty(Nth(2))

C16_Witness ==
  /\ ret.op = "propagate_error_store" /\ Cardinality(pool) = 4
  /\ ~HasEntry(store, get_id(Nth(1)), get_id(Nth(2)))
  /\ a_f = "sub" /\ args[0] = Nth(3) /\ args[1] = Nth(1)
  /\ uncertainty(Nth(1)) # uncertainty(Nth(2))
  /\ get_with_ids(store, get_id(Nth(3)), get_id(Nth(1))) # Zero
  /\ ret.uncertainty = uncertainty(Nth(2))
  /\ ret.uncertainty # uncertainty(Nth(3))

\* C17: correlation propagates transitively through chained store
\* propagations: after z = propagate_error(a+b, store, x, y) and
\* w = propagate_error(a-b, store, z, x), propagate_error(a-b, store, w, y)
\* yields uncertainty 0.
C17_TransitiveCorrelation ==
  /\ ret.op = "propagate_error_store" /\ Cardinality(pool) = 5
  /\ ~HasEntry(store, get_id(Nth(1)), get_id(Nth(2)))
  => ret.uncertainty = Zero

(***************************************************************************)
(* Further claims on propagation through a store (SpecStore).              *)
(***************************************************************************)
\* C18: in a propagation through a store two inputs that carry the same
\* non-zero identity (a variable and its copy) are treated as fully
\* correlated, coefficient 1: propagate_error(b - a, store, x, copy of x)
\* yields uncertainty 0 without any store entry for the pair.
C18_CopiesFullyCorrelated ==
  [][/\ ret'.op = "propagate_error_store"
     /\ a_f' = "sub" /\ Arity(args') = 2
     /\ get_id(args'[0]) = get_id(args'[1]) /\ get_id(args'[0]) # 0
     /\ args'[0] = args'[1]
     /\ ~HasEntry(store, get_id(args'[0]), get_id(args'[1]))
     => ret'.uncertainty = Zero]_vars

\* the first call on which the function fails among the calls a propagation
\* of xs makes (one for the nominal values, one per input), if there is one
FailingCalls(bad, xs) == bad \cap (0 .. Arity(xs))
FirstFailure(bad, xs) ==
  CHOOSE e \in FailingCalls(bad, xs) : \A d \in FailingCalls(bad, xs) : e <= d

\* C19: if the caller-supplied function fails on any of its evaluations
\* during a propagation through a store, the failure reaches the caller, the
\* function is not evaluated again, no result is returned and the store is
\* left exactly as it was before the call.
C19_FailureSurfaces ==
  [][/\ ret'.op = "propagate_error_store_call"
     /\ FailingCalls(ret'.bad, args') # {}
     => /\ ret'.threw
        /\ ret'.evals = FirstFailure(ret'.bad, args') + 1
        /\ ret'.id = 0 /\ ret'.coefficients = <<>>
        /\ ret'.nominal = NoCall.nominal /\ ret'.uncertainty = NoCall.uncertainty
        /\ store' = store]_vars

C19_Witness ==
  /\ ret.op = "propagate_error_store_call"
  /\ ret.threw
  /\ Arity(args) = 2
  /\ ret.evals = 2
  /\ 2 \in ret.bad
  /\ store # EmptyStore
  /\ \E i \in DOMAIN args : get_id(args[i]) # 0

\* C20: when the combined uncertainty is zero, computing the output
\* correlation coefficients in propagate_error_and_correlation is surfaced
\* to the caller as a domain error: the call does not complete normally with
\* coefficients returned.
C20_ZeroUncertaintyIsError ==
  /\ ret.op \in {"propagate_error_and_correlation",
                 "propagate_error_and_correlation_matrix"}
  /\ ret.uncertainty = Zero
  => ret.threw /\ ret.coefficients = <<>>

(***************************************************************************)
(* SpecStats: make_uncertain on a sample.                                  *)
(***************************************************************************)
SampleValues == {Exact(Int2R(1)), Exact(Int2R(2)), Exact(Int2R(4))}

Samples == UNION {[0 .. (N - 1) -> SampleValues] : N \in 1 .. MaxSamples}

\* the reductions the documentation names: 1 (unbiased), 0 (biased)
Reductions == {0, 1}

InitStats ==
  /\ a_f = "sum"
  /\ args \in Samples
  /\ mat = correlation_matrix(1)
  /\ ret = NoCall
  /\ uniq_id = 0
  /\ pool = {}
  /\ store = EmptyStore
  /\ objs = NoObjs /\ issued = <<>> /\ threads = NoThreads

\* auto t = make_uncertain(vals.begin(), vals.end(), tags::use_stdev_for_error{}, d)
CallMakeUncertainStdev ==
  \E d \in Reductions :
    /\ LET t == make_uncertain_stdev(args, d)
       IN  ret' = [NoCall EXCEPT !.op = "make_uncertain_stdev",
                                 !.nominal = nominal(t),
                                 !.uncertainty = uncertainty(t),
                                 !.degrees_of_freedom_reduction = d]
    /\ UNCHANGED <<threads, a_f, args, mat, uniq_id, pool, store, objs, issued>>

NextStats == CallMakeUncertainStdev

SpecStats == InitStats /\ [][NextStats]_vars

\* the mean of a sample and the sum of its squared distances to the mean
MeanOf(xs) == Div(SumOver(DOMAIN xs, [k \in DOMAIN xs |-> xs[k].nom]), Int2R(Arity(xs)))
SquaredDistancesOf(xs) ==
  SumOver(DOMAIN xs, [k \in DOMAIN xs |-> Sq(Sub(xs[k].nom, MeanOf(xs)))])

\* C21: make_uncertain(begin, end, tags::use_stdev_for_error{}, d) returns
\* the mean of the sample as nominal and, as uncertainty, the square root of
\* sum (x - mean)^2 / (N - d), for every degrees_of_freedom_reduction d.
C21_StdevUsesReduction ==
  ret.op = "make_uncertain_stdev"
  => /\ ret.nominal = MeanOf(args)
     /\ ret.uncertainty =
          Sqrt(Div(SquaredDistancesOf(args),
                   Int2R(Arity(args) - ret.degrees_of_freedom_reduction)))

\* the store m holds no entry for any pair of the inputs xs
NoInputEntry(m, xs) ==
  \A i \in DOMAIN xs, j \in DOMAIN xs :
    i < j => ~HasEntry(m, get_id(xs[i]), get_id(xs[j]))

\* C22: a missing store entry means uncorrelated: propagate_error with a
\* store that holds no entry for any pair of the call's inputs (all
\* identities distinct) returns the nominal and the uncertainty that the
\* uncorrelated propagate_error returns on the same function and inputs.
C22_MissingEntryUncorrelated ==
  [][/\ ret'.op = "propagate_error_store"
     /\ DistinctIds(args')
     /\ NoInputEntry(store, args')
     => /\ ret'.nominal = propagate_error(a_f', args').nominal
        /\ ret'.uncertainty = propagate_error(a_f', args').uncertainty]_vars

C22_Witness ==
  /\ ret.op = "propagate_error_store"
  /\ Arity(args) = 2
  /\ DistinctIds(args)
  /\ \A k \in DOMAIN args : get_id(args[k]) # 0
  /\ ~HasEntry(store, get_id(args[0]), get_id(args[1]))
  /\ ret.uncertainty = propagate_error(a_f, args).uncertainty
  /\ ret.uncertainty # Zero

\* the correlation_matrix the caller fills from the store for the inputs xs:
\* matrix(i,j) = store.get(xs[i], xs[j]) written for the pairs of P
RECURSIVE MatrixFilled(_, _, _, _)
MatrixFilled(mx, m, xs, P) ==
  IF P = {} THEN mx
  ELSE LET p == CHOOSE p \in P : TRUE
       IN  MatrixFilled(MatSet(mx, p[1], p[2],
                               get_with_ids(m, get_id(xs[p[1]]), get_id(xs[p[2]]))),
                        m, xs, P \ {p})

MatrixOfStore(m, xs) ==
  MatrixFilled(correlation_matrix(Arity(xs)), m, xs, PairsOf(xs))

\* the matrix mx agrees with the store m on every pair of the inputs xs
MatrixAgrees(mx, m, xs) ==
  \A p \in PairsOf(xs) :
    MatGet(mx, p[1], p[2]) = get_with_ids(m, get_id(xs[p[1]]), get_id(xs[p[2]]))

\* C23: store and matrix propagation apply the same formula: for inputs with
\* pairwise distinct non-zero identities and a store with get(id_i, id_j) =
\* matrix(i,j) for all i < j, propagation with the store and with the matrix
\* return the same nominal and uncertainty, and the coefficients the store
\* call records for the result are those that
\* propagate_error_and_correlation with the matrix returns.
C23_StoreMatchesMatrix ==
  [][/\ ret'.op = "propagate_error_store"
     /\ DistinctIds(args')
     /\ \A k \in DOMAIN args' : get_id(args'[k]) # 0
     /\ MatrixAgrees(MatrixOfStore(store, args'), store, args')
     => LET mx == MatrixOfStore(store, args')
            pm == propagate_error_matrix(a_f', mx, args')
            pc == propagate_error_and_correlation_matrix(a_f', mx, args')
        IN  /\ ret'.nominal = pm.nominal
            /\ ret'.uncertainty = pm.uncertainty
            /\ \A k \in DOMAIN args' :
                 get_with_ids(store', ret'.id, get_id(args'[k]))
                   = pc.coefficients[k]]_vars

C23_Witness ==
  /\ ret.op = "propagate_error_store"
  /\ Arity(args) = 2
  /\ DistinctIds(args)
  /\ \A k \in DOMAIN args : get_id(args[k]) # 0
  /\ HasEntry(store, get_id(args[0]), get_id(args[1]))
  /\ EntryOf(store, get_id(args[0]), get_id(args[1])) # Zero
  /\ ret.uncertainty # propagate_error(a_f, args).uncertainty
  /\ ret.uncertainty # Zero
  /\ \A k \in DOMAIN args :
       get_with_ids(store, ret.id, get_id(args[k])) = ret.coefficients[k]

(***************************************************************************)
(* SpecEvals: the calls of the caller's function during one propagation.   *)
(***************************************************************************)
\* propagate_error(f, args...) with an f that records its arguments
CallPropagateRecording ==
  /\ ret' = [Returned("propagate_error_recording", propagate_error(a_f, args), <<>>)
               EXCEPT !.calls = _propagate_error_evaluations(args, <<>>, -1)]
  /\ UNCHANGED <<threads, a_f, args, mat, uniq_id, pool, store, objs, issued>>

NextEvals == CallPropagateRecording

SpecEvals == InitUncorr /\ [][NextEvals]_vars

\* the index of the n-th uncertain-typed input, n = 1 .. U
NthUncertain(n) ==
  CHOOSE k \in UncertainInputs :
    Cardinality({j \in UncertainInputs : j < k}) = n - 1

\* the point with input k at its upper bound and every other input nominal
PerturbedPoint(k) ==
  [i \in DOMAIN args |-> IF i = k THEN UpperOf(args[i]) ELSE NominalOf(args[i])]

\* C24: a propagation call evaluates f exactly 1 + U times, U the number of
\* uncertain-typed inputs: first at the all-nominal point, then once per
\* uncertain input in increasing input index with exactly that input at its
\* upper bound; no evaluation is made for an exact input.
C24_EvaluationOrder ==
  ret.op = "propagate_error_recording"
  => /\ Len(ret.calls) = 1 + Cardinality(UncertainInputs)
     /\ ret.calls[1] = [i \in DOMAIN args |-> NominalOf(args[i])]
     /\ \A n \in 1 .. Cardinality(UncertainInputs) :
          ret.calls[n + 1] = PerturbedPoint(NthUncertain(n))

C24_Witness ==
  /\ ret.op = "propagate_error_recording"
  /\ Arity(args) = 3
  /\ UncertainInputs = {0, 2}
  /\ Len(ret.calls) = 3
  /\ ret.calls[3] # ret.calls[2]
  /\ ret.calls[2] # ret.calls[1]

(***************************************************************************)
(* SpecThreads: get_uniq_id called from several threads.  id is a plain    *)
(* static size_t, so ++id is a read of id followed by a write of the       *)
(* incremented value, and the reads and writes of the threads interleave.  *)
(***************************************************************************)
\* thread t enters get_uniq_id and reads id
ThreadRead(t) ==
  /\ threads[t].pc = "out"
  /\ Len(issued) + Cardinality({u \in Threads : threads[u].pc = "read"}) < MaxMinted
  /\ threads' = [threads EXCEPT ![t] = [@ EXCEPT !.pc = "read", !.reg = uniq_id]]
  /\ UNCHANGED <<a_f, args, mat, ret, uniq_id, pool, store, objs, issued>>

\* thread t writes the incremented value to id and returns it
ThreadWrite(t) ==
  /\ threads[t].pc = "read"
  /\ LET fresh == get_uniq_id(threads[t].reg)
     IN  /\ uniq_id' = fresh.counter
         /\ issued' = Append(issued, fresh.id)
         /\ threads' = [threads EXCEPT ![t] = [@ EXCEPT !.pc = "out",
                                                       !.got = @ \cup {fresh.id}]]
         /\ ret' = [NoCall EXCEPT !.op = "get_uniq_id", !.id = fresh.id]
  /\ UNCHANGED <<a_f, args, mat, pool, store, objs>>

NextThreads ==
  \/ \E t \in Threads : ThreadRead(t)
  \/ \E t \in Threads : ThreadWrite(t)

SpecThreads == InitStore /\ [][NextThreads]_vars

\* C25: when two threads mint identities concurrently, interleaved at the
\* level of the counter's read and write, they never obtain the same
\* identity.
C25_ConcurrentIdsDistinct ==
  \A t \in Threads, u \in Threads :
    t # u => threads[t].got \cap threads[u].got = {}

\* C26: a propagation with a correlation store never writes a store entry
\* whose key contains identity 0: for an input without identity no output
\* coefficient is recorded, so every key the call adds consists of non-zero
\* identities.
C26_NoZeroKeyWritten ==
  [][ret'.op = "propagate_error_store"
     => \A key \in DOMAIN store' :
          key \notin DOMAIN store \/ store'[key] # store[key]
            => key[1] # 0 /\ key[2] # 0]_vars

(***************************************************************************)
(* Further claims on propagation with a matrix (SpecMatrix).               *)
(***************************************************************************)
\* a real number that is not negative
RealNonNegative(x) == IsFin(x) /\ x.s >= 0

\* every off-diagonal entry of the matrix lies in [-1,1]
EntriesInRange ==
  \A p \in Pairs : MatrixCorr[p] \in {Int2R(-1), Zero, One}

\* C27 as stated: for every symmetric correlation matrix whose off-diagonal
\* entries lie in [-1,1] and every vector of deviations the quantity under
\* the square root in matrix propagation is >= 0, so the returned
\* uncertainty is a real non-negative number.
C27_Original ==
  ret.op = "propagate_error_matrix" /\ EntriesInRange
  => /\ CorrelatedSum(MatrixCorr).s >= 0
     /\ RealNonNegative(ret.uncertainty)

\* C27 amended: with one or two inputs the quantity under the square root is
\* >= 0 for every matrix with off-diagonal entries in [-1,1]; with three or
\* more inputs it can be negative, and the returned uncertainty is a real
\* non-negative number exactly when the quantity is >= 0 (NaN otherwise).
C27_RadicandSign ==
  ret.op = "propagate_error_matrix" /\ EntriesInRange
  => /\ Arity(args) <= 2 => CorrelatedSum(MatrixCorr).s >= 0
     /\ CorrelatedSum(MatrixCorr).s >= 0 <=> RealNonNegative(ret.uncertainty)
     /\ CorrelatedSum(MatrixCorr).s < 0 <=> ret.uncertainty = NaN

C27_Witness ==
  /\ ret.op = "propagate_error_matrix"
  /\ Arity(args) = 2
  /\ MatrixCorr[<<0, 1>>] = Int2R(-1)
  /\ Deviation(0) # Deviation(1)
  /\ CorrelatedSum(MatrixCorr).s > 0
  /\ RealNonNegative(ret.uncertainty)
  /\ ret.uncertainty = AbsR(Sub(Deviation(0), Deviation(1)))

(***************************************************************************)
(* Further claims on the correlation store (SpecStoreOps).                 *)
(***************************************************************************)
\* C28: get never changes the store: after a get, and so after any number of
\* gets, on a pair with no entry the store has the same entries as before,
\* and a following add for that pair succeeds and inserts its value.
C28_GetLeavesStore ==
  [][/\ ret'.op = "get" =>
          /\ store' = store
          /\ ~HasEntry(store, ret'.a_id1, ret'.a_id2)
               => ~HasEntry(store', ret'.a_id1, ret'.a_id2)
     /\ ret'.op = "add" /\ ret'.prev = "get" /\ ret.out = Zero
        /\ ~HasEntry(store, ret'.a_id1, ret'.a_id2)
          => /\ ~ret'.threw
             /\ HasEntry(store', ret'.a_id1, ret'.a_id2)
             /\ EntryOf(store', ret'.a_id1, ret'.a_id2) = ret'.a_val]_vars

C28_Witness ==
  /\ ret.op = "add" /\ ret.prev = "get"
  /\ ~ret.threw
  /\ ret.a_id1 # ret.a_id2
  /\ EntryOf(store, ret.a_id1, ret.a_id2) = ret.a_val
  /\ ret.a_val # Zero
  /\ Cardinality(DOMAIN store) >= 2

C30_PairsIndependent ==
  [][ret'.op = "matrix_assign" /\ ret'.a_i # ret'.a_j
     => \A k \in DOMAIN args, l \in DOMAIN args :
          k # l /\ {k, l} # {ret'.a_i, ret'.a_j}
            => MatGet(mat', k, l) = MatGet(mat, k, l)]_vars

====
